---------------------------- MODULE Spec2Model ----------------------------
(***************************************************************************)
(* Carbon compliance scoring (carbon_compliance.py).                       *)
(*                                                                         *)
(* CarbonComplianceFramework.assess_compliance takes a ledger of emission  *)
(* rows, a company profile and an assessment period, resolves a benchmark, *)
(* and derives ratio, status, score, fine and credit.                      *)
(*                                                                         *)
(* Numbers.  The code computes in binary floating point.  The model        *)
(* computes the same expressions, in the same order, over exact rationals  *)
(* [n |-> numerator, d |-> denominator] kept in lowest terms with d > 0,   *)
(* so a decimal literal such as 0.8 is the rational 4/5.  Rounding of the  *)
(* last binary digit is therefore not represented.                         *)
(*                                                                         *)
(* Strings.  An industry tag is a tuple of one-character strings, so that  *)
(* str.lower() is modelled character by character.                         *)
(***************************************************************************)
EXTENDS Integers, Sequences, FiniteSets, TLC

VARIABLES
    industry_benchmarks,       \* self.industry_benchmarks
    compliance_rules,          \* self.compliance_rules
    emissions_data,            \* argument: the ledger (sequence of rows)
    company_info,              \* argument: the company profile (a dict)
    assessment_period_months,  \* argument: the declared period
    result,                    \* what the call returned, NoResult before it
    previous,                  \* the caller's record of the call before this one
    scenarios,                 \* what simulate_improvement_scenarios returned last
    sort_ties,                 \* how the installed sort leaves equal sums, once seen
    report,                    \* what generate_compliance_report returned last
    benchmark_info,            \* what get_industry_benchmark_info returned last
    last_call,                 \* the last DataHandler call and what it returned
    emissions_file             \* data/emissions.json, as DataHandler last wrote it

vars == <<industry_benchmarks, compliance_rules, emissions_data, company_info,
          assessment_period_months, result, previous, scenarios, sort_ties,
          report, benchmark_info, last_call, emissions_file>>

-----------------------------------------------------------------------------
(* Exact rational arithmetic standing for Python's float arithmetic.       *)

RECURSIVE GCD(_, _)
GCD(a, b) ==
    IF b = 0 THEN a ELSE GCD(b, a % b)

IAbs(i) ==
    IF i < 0 THEN -i ELSE i

\* n/d in lowest terms with a positive denominator (d # 0).
Rat(n, d) ==
    LET g == GCD(IAbs(n), IAbs(d))
        s == IF d < 0 THEN -1 ELSE 1
    IN  [n |-> s * (n \div g), d |-> s * (d \div g)]

RI(i) ==
    [n |-> i, d |-> 1]

RAdd(a, b) ==
    Rat(a.n * b.d + b.n * a.d, a.d * b.d)

RSub(a, b) ==
    Rat(a.n * b.d - b.n * a.d, a.d * b.d)

RMul(a, b) ==
    Rat(a.n * b.n, a.d * b.d)

\* a / b for b # 0
RDiv(a, b) ==
    Rat(a.n * b.d, a.d * b.n)

RLe(a, b) ==
    a.n * b.d <= b.n * a.d

RLt(a, b) ==
    a.n * b.d < b.n * a.d

RAbs(a) ==
    [n |-> IAbs(a.n), d |-> a.d]

\* Python's max(a, b): b only when b > a
RMax(a, b) ==
    IF RLt(a, b) THEN b ELSE a

\* Python's min(a, b): b only when b < a
RMin(a, b) ==
    IF RLt(b, a) THEN b ELSE a

-----------------------------------------------------------------------------
(* str.lower() on the tags that occur.                                     *)

UpperLetters ==
    <<"A", "B", "C", "D", "E", "F", "G", "H", "I", "J", "K", "L", "M",
      "N", "O", "P", "Q", "R", "S", "T", "U", "V", "W", "X", "Y", "Z">>

LowerLetters ==
    <<"a", "b", "c", "d", "e", "f", "g", "h", "i", "j", "k", "l", "m",
      "n", "o", "p", "q", "r", "s", "t", "u", "v", "w", "x", "y", "z">>

LowerChar(c) ==
    IF \E i \in DOMAIN UpperLetters : UpperLetters[i] = c
    THEN LowerLetters[CHOOSE i \in DOMAIN UpperLetters : UpperLetters[i] = c]
    ELSE c

lower(s) ==
    [i \in DOMAIN s |-> LowerChar(s[i])]

-----------------------------------------------------------------------------
(* The static tables built by __init__.                                    *)

manufacturing  == <<"m","a","n","u","f","a","c","t","u","r","i","n","g">>
technology     == <<"t","e","c","h","n","o","l","o","g","y">>
services       == <<"s","e","r","v","i","c","e","s">>
retail         == <<"r","e","t","a","i","l">>
transportation == <<"t","r","a","n","s","p","o","r","t","a","t","i","o","n">>
agriculture    == <<"a","g","r","i","c","u","l","t","u","r","e">>
energy         == <<"e","n","e","r","g","y">>

\* reduction_target_percent is kept in tenths of a percent (5.0 -> 50)
IndustryBenchmark(per_employee, per_revenue, target_tenths) ==
    [emissions_per_employee_kg |-> per_employee,
     emissions_per_revenue_kg  |-> per_revenue,
     reduction_target_tenths   |-> target_tenths]

\* a variant with the technology and services records exchanged
load_industry_benchmarks_exchanged ==
    (manufacturing  :> IndustryBenchmark(8500, 37500, 50)) @@
    (technology     :> IndustryBenchmark(2800, 12500, 60)) @@
    (services       :> IndustryBenchmark(3200, 15000, 70)) @@
    (retail         :> IndustryBenchmark(4200, 23350, 45)) @@
    (transportation :> IndustryBenchmark(12000, 62500, 35)) @@
    (agriculture    :> IndustryBenchmark(6800, 43350, 40)) @@
    (energy         :> IndustryBenchmark(15000, 75000, 80))

load_industry_benchmarks ==
    (manufacturing  :> IndustryBenchmark(8500, 37500, 50)) @@
    (technology     :> IndustryBenchmark(3200, 15000, 70)) @@
    (services       :> IndustryBenchmark(2800, 12500, 60)) @@
    (retail         :> IndustryBenchmark(4200, 23350, 45)) @@
    (transportation :> IndustryBenchmark(12000, 62500, 35)) @@
    (agriculture    :> IndustryBenchmark(6800, 43350, 40)) @@
    (energy         :> IndustryBenchmark(15000, 75000, 80))

\* ComplianceStatus: each member is written as its .value
EXCELLENT         == "excellent"
GOOD              == "good"
NEEDS_IMPROVEMENT == "needs_improvement"
POOR              == "poor"
CRITICAL          == "critical"

ComplianceStatus ==
    {EXCELLENT, GOOD, NEEDS_IMPROVEMENT, POOR, CRITICAL}

\* a variant with the two fine rates exchanged
load_compliance_rules_swapped ==
    (EXCELLENT :> [score_range |-> <<90, 100>>, credit_rate |-> 4200, fine_rate |-> 0]) @@
    (GOOD :> [score_range |-> <<75, 89>>, credit_rate |-> 2100, fine_rate |-> 0]) @@
    (NEEDS_IMPROVEMENT :> [score_range |-> <<60, 74>>, credit_rate |-> 0, fine_rate |-> 0]) @@
    (POOR :> [score_range |-> <<40, 59>>, credit_rate |-> 0, fine_rate |-> 2520]) @@
    (CRITICAL :> [score_range |-> <<0, 39>>, credit_rate |-> 0, fine_rate |-> 1260])

load_compliance_rules ==
    (EXCELLENT :> [score_range |-> <<90, 100>>, credit_rate |-> 4200, fine_rate |-> 0]) @@
    (GOOD :> [score_range |-> <<75, 89>>, credit_rate |-> 2100, fine_rate |-> 0]) @@
    (NEEDS_IMPROVEMENT :> [score_range |-> <<60, 74>>, credit_rate |-> 0, fine_rate |-> 0]) @@
    (POOR :> [score_range |-> <<40, 59>>, credit_rate |-> 0, fine_rate |-> 1260]) @@
    (CRITICAL :> [score_range |-> <<0, 39>>, credit_rate |-> 0, fine_rate |-> 2520])

-----------------------------------------------------------------------------
(* Dates.  A date cell of the ledger is the text "YYYY-MM-DD", held as its *)
(* three numbers; pd.to_datetime(errors='coerce') turns it into a          *)
(* timestamp (a day number, days since 2000-01-01) or into NaT.            *)

DateText(y, m, d) ==
    [y |-> y, m |-> m, d |-> d]

Day(n) ==
    [valid |-> TRUE, day |-> n]

NaT ==
    [valid |-> FALSE, day |-> 0]

IsLeap(y) ==
    (y % 4 = 0 /\ y % 100 # 0) \/ y % 400 = 0

DaysInMonth(y, m) ==
    IF m = 2 THEN (IF IsLeap(y) THEN 29 ELSE 28)
    ELSE IF m \in {4, 6, 9, 11} THEN 30 ELSE 31

\* days of the year before the first of month m, in a common year
DaysBeforeMonth ==
    <<0, 31, 59, 90, 120, 151, 181, 212, 243, 273, 304, 334>>

\* leap days in the years 2000 .. y-1
LeapDaysBefore(y) ==
    ((y - 1) \div 4 - (y - 1) \div 100 + (y - 1) \div 400) - 484

DayNumber(y, m, d) ==
    365 * (y - 2000) + LeapDaysBefore(y) + DaysBeforeMonth[m]
        + (IF m > 2 /\ IsLeap(y) THEN 1 ELSE 0) + (d - 1)

\* pd.to_datetime(cell, errors='coerce')
to_datetime(cell) ==
    IF /\ cell.y >= 2000
       /\ cell.m \in 1..12
       /\ cell.d >= 1
       /\ cell.d <= DaysInMonth(cell.y, cell.m)
    THEN Day(DayNumber(cell.y, cell.m, cell.d))
    ELSE NaT

\* emissions_data_copy.dropna(subset=['date']): the day numbers of the rows
\* whose date parsed
valid_days(rows) ==
    { to_datetime(rows[i].date).day :
          i \in { j \in DOMAIN rows : to_datetime(rows[j].date).valid } }

SetMin(S) ==
    CHOOSE x \in S : \A y \in S : x <= y

SetMax(S) ==
    CHOOSE x \in S : \A y \in S : x >= y

\* the f-string of lines 182 / 184, as the values it renders
period_description_of(rows, months) ==
    LET days == valid_days(rows)
    IN  IF days # {}
        THEN [months      |-> months,
              has_dates   |-> TRUE,
              min_date    |-> SetMin(days),
              max_date    |-> SetMax(days),
              actual_days |-> (SetMax(days) - SetMin(days)) + 1]
        ELSE [months |-> months, has_dates |-> FALSE]

\* int(x / 100) for an integer x: Python's int() truncates towards zero
IntOfHundredths(x) ==
    IF x >= 0 THEN x \div 100 ELSE -((-x) \div 100)

\* a variant that rounds to the nearest day
review_delta_days_rounded(months) ==
    (months * 3044 + 50) \div 100

\* timedelta(days=int(assessment_period_months * 30.44))
review_delta_days(months) ==
    IntOfHundredths(months * 3044)

\* lines 259-275; clock is what datetime.now() returns during the call
next_review_date_of(rows, months, clock) ==
    IF Len(rows) > 0 /\ valid_days(rows) # {}
    THEN Day(SetMax(valid_days(rows)) + review_delta_days(months))
    ELSE Day(clock + review_delta_days(months))

-----------------------------------------------------------------------------
(* assess_compliance, step by step.                                        *)

\* A ledger row; the columns the framework reads.
Row(date, scope, category, kg) ==
    [date |-> date, scope |-> scope, category |-> category, emissions_kgCO2e |-> kg]

\* a variant that leaves out the rows dated outside the year 2025
RECURSIVE total_emissions_kg_of_2025(_)
total_emissions_kg_of_2025(rows) ==
    IF rows = <<>> THEN 0
    ELSE (IF rows[1].date.y = 2025 THEN rows[1].emissions_kgCO2e ELSE 0)
         + total_emissions_kg_of_2025(Tail(rows))

\* a variant that sums valid_emissions, the rows left after dropna
RECURSIVE total_emissions_kg_of_dated_rows(_)
total_emissions_kg_of_dated_rows(rows) ==
    IF rows = <<>> THEN 0
    ELSE (IF to_datetime(rows[1].date).valid THEN rows[1].emissions_kgCO2e ELSE 0)
         + total_emissions_kg_of_dated_rows(Tail(rows))

\* emissions_data['emissions_kgCO2e'].sum(): every row, whatever its date
RECURSIVE total_emissions_kg(_)
total_emissions_kg(rows) ==
    IF rows = <<>> THEN 0
    ELSE rows[1].emissions_kgCO2e + total_emissions_kg(Tail(rows))

total_emissions_tonnes(rows) ==
    RDiv(RI(total_emissions_kg(rows)), RI(1000))

\* a variant that looks the tag up as written, without lower-casing it
industry_key_as_written(info) ==
    LET key == IF "industry" \in DOMAIN info THEN info["industry"] ELSE services
    IN  IF key \notin DOMAIN industry_benchmarks THEN services ELSE key

\* company_info.get('industry', 'services').lower(), with the fallback
industry_key(info) ==
    LET key == lower(IF "industry" \in DOMAIN info THEN info["industry"] ELSE services)
    IN  IF key \notin DOMAIN industry_benchmarks THEN services ELSE key

\* a variant that looks at revenue first
benchmark_emissions_kg_revenue_first(benchmark, info, months) ==
    IF "revenue_million_inr" \in DOMAIN info /\ info["revenue_million_inr"] > 0
    THEN RMul(RI(benchmark.emissions_per_revenue_kg * info["revenue_million_inr"]),
              RDiv(RI(months), RI(12)))
    ELSE IF "employees" \in DOMAIN info /\ info["employees"] > 0
    THEN RMul(RI(benchmark.emissions_per_employee_kg * info["employees"]),
              RDiv(RI(months), RI(12)))
    ELSE RMul(RI(benchmark.emissions_per_employee_kg * 10),
              RDiv(RI(months), RI(12)))

\* the three-way choice of the yardstick
benchmark_emissions_kg(benchmark, info, months) ==
    IF "employees" \in DOMAIN info /\ info["employees"] > 0
    THEN RMul(RI(benchmark.emissions_per_employee_kg * info["employees"]),
              RDiv(RI(months), RI(12)))
    ELSE IF "revenue_million_inr" \in DOMAIN info /\ info["revenue_million_inr"] > 0
    THEN RMul(RI(benchmark.emissions_per_revenue_kg * info["revenue_million_inr"]),
              RDiv(RI(months), RI(12)))
    ELSE RMul(RI(benchmark.emissions_per_employee_kg * 10),
              RDiv(RI(months), RI(12)))

benchmark_emissions_tonnes(info, months) ==
    RDiv(benchmark_emissions_kg(industry_benchmarks[industry_key(info)], info, months),
         RI(1000))

\* a variant without the bonus for staying under the 0.8 mark
score_excellent_flat(r) ==
    RI(90)

\* the five score formulas, one per branch
score_excellent(r) ==
    RAdd(RI(90), RDiv(RMul(RI(10), RSub(Rat(8, 10), r)), Rat(8, 10)))

score_good(r) ==
    RAdd(RI(75), RDiv(RMul(RI(15), RSub(Rat(9, 10), r)), Rat(1, 10)))

score_needs_improvement(r) ==
    RAdd(RI(60), RDiv(RMul(RI(15), RSub(Rat(11, 10), r)), Rat(2, 10)))

\* a variant that interpolates from the wrong end of the band
score_poor_rising(r) ==
    RAdd(RI(40), RDiv(RMul(RI(20), RSub(r, Rat(11, 10))), Rat(15, 100)))

score_poor(r) ==
    RAdd(RI(40), RDiv(RMul(RI(20), RSub(Rat(125, 100), r)), Rat(15, 100)))

\* a variant with the band width taken as 0.5
score_critical_wide(r) ==
    RMax(RI(0), RDiv(RMul(RI(40), RSub(Rat(15, 10), r)), Rat(5, 10)))

score_critical(r) ==
    RMax(RI(0), RDiv(RMul(RI(40), RSub(Rat(15, 10), r)), Rat(25, 100)))

\* a variant with exclusive upper bounds
status_of_exclusive(r) ==
    IF RLt(r, Rat(8, 10)) THEN EXCELLENT
    ELSE IF RLt(r, Rat(9, 10)) THEN GOOD
    ELSE IF RLt(r, Rat(11, 10)) THEN NEEDS_IMPROVEMENT
    ELSE IF RLt(r, Rat(125, 100)) THEN POOR
    ELSE CRITICAL

\* the if/elif chain on performance_ratio: which branch is taken
status_of(r) ==
    IF RLe(r, Rat(8, 10)) THEN EXCELLENT
    ELSE IF RLe(r, Rat(9, 10)) THEN GOOD
    ELSE IF RLe(r, Rat(11, 10)) THEN NEEDS_IMPROVEMENT
    ELSE IF RLe(r, Rat(125, 100)) THEN POOR
    ELSE CRITICAL

\* the score assigned in the branch taken, before the clamp
branch_score(r) ==
    IF RLe(r, Rat(8, 10)) THEN score_excellent(r)
    ELSE IF RLe(r, Rat(9, 10)) THEN score_good(r)
    ELSE IF RLe(r, Rat(11, 10)) THEN score_needs_improvement(r)
    ELSE IF RLe(r, Rat(125, 100)) THEN score_poor(r)
    ELSE score_critical(r)

\* a variant that only keeps the score from going negative
clamp_score_no_ceiling(score) ==
    RMax(RI(0), score)

\* score = max(0, min(100, score))
clamp_score(score) ==
    RMax(RI(0), RMin(RI(100), score))

\* a variant that forgets abs()
credit_amount_of_signed(difference, rules) ==
    IF RLt(difference, RI(0)) THEN RMul(difference, RI(rules.credit_rate))
    ELSE RI(0)

\* fines and credits from the rule of the status just derived
credit_amount_of(difference, rules) ==
    IF RLt(difference, RI(0)) THEN RMul(RAbs(difference), RI(rules.credit_rate))
    ELSE RI(0)

\* a variant that fines at the rate of the band whatever the band charges,
\* falling back to the lowest fine rate where the band has none
fine_amount_of_never_free(difference, rules) ==
    IF RLt(difference, RI(0)) THEN RI(0)
    ELSE RMul(difference, RI(IF rules.fine_rate = 0 THEN 1260 ELSE rules.fine_rate))

fine_amount_of(difference, rules) ==
    IF RLt(difference, RI(0)) THEN RI(0)
    ELSE RMul(difference, RI(rules.fine_rate))

\* what the caller sees when the call raises
Raised(error) ==
    [kind |-> "error", error |-> error]

\* The result record, with the fields the scoring steps produce (lines
\* 174-252): status, score, fine, credit, actual, benchmark, ratio, period.
ComplianceResult(rows, info, months) ==
    LET actual      == total_emissions_tonnes(rows)
        benchmark   == benchmark_emissions_tonnes(info, months)
        ratio       == RDiv(actual, benchmark)
        status      == status_of(ratio)
        difference  == RSub(actual, benchmark)
        rules       == compliance_rules[status]
    IN  \* self.industry_benchmarks[industry_key]: a dict lookup raises on a missing key
        IF industry_key(info) \notin DOMAIN industry_benchmarks
        THEN Raised("KeyError")
        ELSE [kind                 |-> "result",
              status               |-> status,
              score                |-> clamp_score(branch_score(ratio)),
              fine_amount          |-> fine_amount_of(difference, rules),
              credit_amount        |-> credit_amount_of(difference, rules),
              emissions_actual     |-> actual,
              emissions_benchmark  |-> benchmark,
              performance_ratio    |-> ratio,
              actual_period_months |-> months]

-----------------------------------------------------------------------------
(* _generate_recommendations.  The texts are written without their emoji.  *)

\* the recommendation texts of lines 312-339
REC_SHARE_BEST_PRACTICES ==
    "Excellent performance! Consider sharing best practices with industry peers"

REC_EXPLORE_RENEWABLES ==
    "Explore additional renewable energy opportunities to maintain leadership"

REC_DOCUMENT_STRATEGIES ==
    "Document your carbon reduction strategies for sustainability reporting"

REC_ENERGY_EFFICIENCY ==
    "Focus on energy efficiency improvements to reduce Scope 2 emissions"

REC_COMMUTING_PROGRAMS ==
    "Implement employee commuting programs to reduce Scope 3 emissions"

REC_AGGRESSIVE_TARGETS ==
    "Set more aggressive reduction targets for next assessment period"

REC_IMMEDIATE_ACTION ==
    "Immediate action required to avoid higher penalties"

REC_ENERGY_AUDIT ==
    "Prioritize energy audit and efficiency upgrades"

REC_RENEWABLE_PROCUREMENT ==
    "Consider renewable energy procurement to reduce emissions"

REC_ENGAGE_EMPLOYEES ==
    "Engage employees in carbon reduction initiatives"

REC_ELECTRICITY ==
    "Switch to renewable electricity or improve energy efficiency"

REC_MOBILE_COMBUSTION ==
    "Consider electric vehicles or optimize fleet usage"

REC_BUSINESS_TRAVEL ==
    "Implement virtual meeting policies and sustainable travel guidelines"

REC_STATIONARY_COMBUSTION ==
    "Upgrade to more efficient heating systems or alternative fuels"

\* the columns of the DataFrame: those of its rows; an empty ledger is the
\* empty frame with all its columns
AllColumns ==
    {"date", "scope", "category", "emissions_kgCO2e"}

columns(rows) ==
    IF rows = <<>> THEN AllColumns ELSE DOMAIN rows[1]

categories(rows) ==
    { rows[i].category : i \in DOMAIN rows }

\* emissions_data.groupby('category')['emissions_kgCO2e'].sum(), one group
category_sum(rows, c) ==
    LET InGroup(r) == r.category = c
    IN  total_emissions_kg(SelectSeq(rows, InGroup))

\* a variant that sorts ascending, as sort_values() does by default
RECURSIVE sorted_categories_ascending(_, _)
sorted_categories_ascending(rows, cats) ==
    IF cats = {} THEN {<<>>}
    ELSE LET low == { c \in cats :
                         \A o \in cats : category_sum(rows, c) <= category_sum(rows, o) }
         IN  UNION { { <<c>> \o rest : rest \in sorted_categories_ascending(rows, cats \ {c}) } :
                         c \in low }

\* .sort_values(ascending=False): every order of the groups with the sums
\* descending.  The default sort kind is not stable, so groups with equal
\* sums may come out in either order.
RECURSIVE sorted_categories(_, _)
sorted_categories(rows, cats) ==
    IF cats = {} THEN {<<>>}
    ELSE LET top == { c \in cats :
                         \A o \in cats : category_sum(rows, c) >= category_sum(rows, o) }
         IN  UNION { { <<c>> \o rest : rest \in sorted_categories(rows, cats \ {c}) } :
                         c \in top }

\* the orders the sort may produce for this ledger (empty when the
\* grouping is not reached)
category_orders(rows) ==
    IF Len(rows) > 0 /\ {"scope", "category"} \subseteq columns(rows)
    THEN sorted_categories(rows, categories(rows))
    ELSE {<<>>}

\* seq[:n]
\* a variant that cuts nothing
head_whole(seq, n) ==
    seq

\* seq[:n], and Series.head(n)
head(seq, n) ==
    SubSeq(seq, 1, IF Len(seq) < n THEN Len(seq) ELSE n)

\* a variant that gives GOOD the items of the tier below
general_recommendations_good_as_lower_tier(status) ==
    IF status = EXCELLENT
    THEN << REC_SHARE_BEST_PRACTICES, REC_EXPLORE_RENEWABLES, REC_DOCUMENT_STRATEGIES >>
    ELSE IF status \in {GOOD, NEEDS_IMPROVEMENT}
    THEN << REC_ENERGY_EFFICIENCY, REC_COMMUTING_PROGRAMS, REC_AGGRESSIVE_TARGETS >>
    ELSE << REC_IMMEDIATE_ACTION, REC_ENERGY_AUDIT, REC_RENEWABLE_PROCUREMENT,
            REC_ENGAGE_EMPLOYEES >>

general_recommendations(status) ==
    IF status \in {EXCELLENT, GOOD}
    THEN << REC_SHARE_BEST_PRACTICES,
            REC_EXPLORE_RENEWABLES,
            REC_DOCUMENT_STRATEGIES >>
    ELSE IF status = NEEDS_IMPROVEMENT
    THEN << REC_ENERGY_EFFICIENCY,
            REC_COMMUTING_PROGRAMS,
            REC_AGGRESSIVE_TARGETS >>
    ELSE << REC_IMMEDIATE_ACTION,
            REC_ENERGY_AUDIT,
            REC_RENEWABLE_PROCUREMENT,
            REC_ENGAGE_EMPLOYEES >>

\* the if/elif chain on the category name: one item or none
specific_recommendation(category) ==
    IF category = "Electricity"
    THEN << REC_ELECTRICITY >>
    ELSE IF category = "Mobile Combustion"
    THEN << REC_MOBILE_COMBUSTION >>
    ELSE IF category = "Business Travel"
    THEN << REC_BUSINESS_TRAVEL >>
    ELSE IF category = "Stationary Combustion"
    THEN << REC_STATIONARY_COMBUSTION >>
    ELSE << >>

\* for category in top_categories: ...
RECURSIVE specific_recommendations(_)
specific_recommendations(top_categories) ==
    IF top_categories = <<>> THEN <<>>
    ELSE specific_recommendation(top_categories[1])
             \o specific_recommendations(Tail(top_categories))

\* a variant whose guard needs more than one row
generate_recommendations_above_one_row(status, rows, order) ==
    LET recommendations ==
            IF Len(rows) > 1
            THEN general_recommendations(status)
                     \o specific_recommendations(head(order, 3))
            ELSE <<>>
    IN  head(recommendations, 8)

\* the list recommendations as line 341 finds it; order is
\* category_emissions.index after the sort
recommendations_before_cut(status, rows, order) ==
    LET top_categories == head(order, 3)
    IN  IF Len(rows) > 0
        THEN general_recommendations(status) \o specific_recommendations(top_categories)
        ELSE <<>>

\* return recommendations[:8]
generate_recommendations(status, rows, order) ==
    head(recommendations_before_cut(status, rows, order), 8)

-----------------------------------------------------------------------------
(* The whole call.                                                         *)

\* IEEE results of a division by 0.0, written as fractions over 0
PosInf == [n |-> 1, d |-> 0]
NegInf == [n |-> -1, d |-> 0]
NaN    == [n |-> 0, d |-> 0]

\* numpy's float division by 0.0: a warning and inf, -inf or nan
numpy_divide_by_zero(a) ==
    IF a.n > 0 THEN PosInf ELSE IF a.n < 0 THEN NegInf ELSE NaN

\* Lines 221-252 when benchmark_emissions_tonnes is 0.0.  The sum of a
\* numeric column is a numpy float, whose division by zero yields inf or nan,
\* and the scoring goes on with it: every comparison with nan is false, and
\* so is inf <= x; -inf <= 0.8 is true; max(0, nan) and max(0, -inf) are 0
\* and min(100, inf) is 100.  The sum of an object column (the frame of
\* create_empty_emissions_data) is a Python number, whose division raises.
zero_benchmark_outcome(rows, info, months, numeric_sum) ==
    LET actual     == total_emissions_tonnes(rows)
        benchmark  == benchmark_emissions_tonnes(info, months)
        ratio      == numpy_divide_by_zero(actual)
        status     == IF ratio = NegInf THEN EXCELLENT ELSE CRITICAL
        difference == RSub(actual, benchmark)
        rules      == compliance_rules[status]
    IN  IF ~numeric_sum
        THEN Raised("ZeroDivisionError")
        ELSE [kind                 |-> "result",
              status               |-> status,
              score                |-> IF ratio = NegInf THEN RI(100) ELSE RI(0),
              fine_amount          |-> fine_amount_of(difference, rules),
              credit_amount        |-> credit_amount_of(difference, rules),
              emissions_actual     |-> actual,
              emissions_benchmark  |-> benchmark,
              performance_ratio    |-> ratio,
              actual_period_months |-> months]

\* lines 303-305: groupby on a column the frame does not have raises KeyError
grouping_fails(rows) ==
    Len(rows) > 0 /\ ~({"scope", "category"} \subseteq columns(rows))

\* assess_compliance from its first line to its return.  order is the index
\* of the sorted category sums, clock the reading of datetime.now(), and
\* numeric_sum tells whether the emissions column has a numeric dtype.
assess_outcome(rows, info, months, order, clock, numeric_sum) ==
    LET scored == IF benchmark_emissions_tonnes(info, months).n = 0
                  THEN zero_benchmark_outcome(rows, info, months, numeric_sum)
                  ELSE ComplianceResult(rows, info, months)
    IN  IF scored.kind = "error" THEN scored
        ELSE IF grouping_fails(rows) THEN Raised("KeyError")
        ELSE [kind                 |-> "result",
              status               |-> scored.status,
              score                |-> scored.score,
              fine_amount          |-> scored.fine_amount,
              credit_amount        |-> scored.credit_amount,
              emissions_actual     |-> scored.emissions_actual,
              emissions_benchmark  |-> scored.emissions_benchmark,
              performance_ratio    |-> scored.performance_ratio,
              recommendations      |-> generate_recommendations(scored.status, rows, order),
              next_review_date     |-> next_review_date_of(rows, months, clock),
              period_description   |-> period_description_of(rows, months),
              actual_period_months |-> months]

\* what datetime.now() may return during a call
ClockChoices ==
    { DayNumber(2025, 6, 1), DayNumber(2025, 6, 2) }

\* datetime.now() is read only on the fallback lines 272 and 275
clock_reads(rows) ==
    IF Len(rows) > 0 /\ valid_days(rows) # {} THEN {0} ELSE ClockChoices

\* the dtype of the column matters only to a division by zero
sum_dtypes(info, months) ==
    IF benchmark_emissions_tonnes(info, months).n = 0 THEN BOOLEAN ELSE {TRUE}

\* The sort of line 305 is not a stable one, so the order of categories with
\* equal sums is the sort's own affair: it leaves them in index order (the
\* sorted keys of the groupby) or in the reverse of it.  Which of the two is
\* a fact about the installation, the same for every call.
GroupbyIndex ==
    <<"Business Travel", "Electricity", "Mobile Combustion", "Stationary Combustion",
      "Waste">>

index_of(category) ==
    CHOOSE i \in DOMAIN GroupbyIndex : GroupbyIndex[i] = category

keeps_ties(order, rows, ties) ==
    \A i, j \in DOMAIN order :
        (i < j /\ category_sum(rows, order[i]) = category_sum(rows, order[j])) =>
            IF ties = "kept"
            THEN index_of(order[i]) < index_of(order[j])
            ELSE index_of(order[i]) > index_of(order[j])

\* category_emissions.index after sort_values(ascending=False)
sort_values(rows, ties) ==
    CHOOSE order \in category_orders(rows) : keeps_ties(order, rows, ties)

\* whether the sort is reached and meets two categories with equal sums
has_equal_sums(rows) ==
    /\ Len(rows) > 0
    /\ {"scope", "category"} \subseteq columns(rows)
    /\ \E c, o \in categories(rows) :
          c # o /\ category_sum(rows, c) = category_sum(rows, o)

\* line 255 is reached unless the division of line 221 raised
reaches_recommendations(info, months, numeric_sum) ==
    numeric_sum \/ benchmark_emissions_tonnes(info, months).n # 0

\* a variant in which every sort is free to order equal sums anew
tie_orders_of_each_call(rows, seen) ==
    IF has_equal_sums(rows) THEN {"kept", "reversed"} ELSE {"kept"}

\* the tie orders a call may meet: the one already seen, else either
tie_orders(rows, seen) ==
    IF seen # "unobserved" THEN {seen}
    ELSE IF has_equal_sums(rows) THEN {"kept", "reversed"}
    ELSE {"kept"}

\* a variant that parses the dates in the caller's frame, without the copy
\* of line 167: the cells that are no dates are left empty
frame_after_call_in_place(rows) ==
    [ i \in DOMAIN rows |->
        [rows[i] EXCEPT !.date = IF to_datetime(@).valid THEN @ ELSE DateText(0, 0, 0)] ]

\* The caller's frame after the call: lines 167-168 and 262-263 write the
\* parsed dates to a copy, never to emissions_data itself.
frame_after_call(rows) ==
    rows

NotCalled ==
    [kind |-> "none"]

NoFile ==
    [kind |-> "absent"]

handler_vars ==
    <<last_call, emissions_file>>

NoResult ==
    [kind |-> "none"]

NoCall ==
    [kind |-> "none"]

\* One call of assess_compliance on the arguments held in the state.
assess_compliance ==
    /\ result = NoResult
    /\ \E ties \in tie_orders(emissions_data, sort_ties),
             clock \in clock_reads(emissions_data),
             numeric_sum \in sum_dtypes(company_info, assessment_period_months) :
          LET outcome == assess_outcome(emissions_data, company_info,
                                        assessment_period_months,
                                        sort_values(emissions_data, ties),
                                        clock, numeric_sum)
          IN  /\ result' = outcome
              /\ sort_ties' = IF /\ has_equal_sums(emissions_data)
                                 /\ reaches_recommendations(company_info,
                                        assessment_period_months, numeric_sum)
                              THEN ties ELSE sort_ties
    /\ emissions_data' = frame_after_call(emissions_data)
    /\ UNCHANGED <<industry_benchmarks, compliance_rules, company_info,
                   assessment_period_months, previous, scenarios, report,
                   benchmark_info, handler_vars>>

-----------------------------------------------------------------------------
(* simulate_improvement_scenarios.                                         *)

\* a variant that keeps the rates of the current status instead of
\* banding the new ratio
scenario_of_current_band(current_result, reduction_pct) ==
    LET new_emissions == RMul(current_result.emissions_actual,
                              RSub(RI(1), Rat(reduction_pct, 100)))
        difference    == RSub(new_emissions, current_result.emissions_benchmark)
        rules         == compliance_rules[current_result.status]
        new_credit    == credit_amount_of(difference, rules)
        new_fine      == fine_amount_of(difference, rules)
    IN  [reduction_percentage  |-> reduction_pct,
         new_emissions_tonnes  |-> new_emissions,
         new_status            |-> current_result.status,
         new_credit_amount     |-> new_credit,
         new_fine_amount       |-> new_fine,
         financial_improvement |->
             RAdd(RSub(current_result.fine_amount, new_fine),
                  RSub(new_credit, current_result.credit_amount))]

\* a variant with the fine rates of POOR and CRITICAL exchanged
scenario_of_fines_exchanged(current_result, reduction_pct) ==
    LET new_emissions == RMul(current_result.emissions_actual,
                              RSub(RI(1), Rat(reduction_pct, 100)))
        new_ratio     == RDiv(new_emissions, current_result.emissions_benchmark)
        difference    == RSub(new_emissions, current_result.emissions_benchmark)
        new_status    == IF RLe(new_ratio, Rat(8, 10)) THEN EXCELLENT
                         ELSE IF RLe(new_ratio, Rat(9, 10)) THEN GOOD
                         ELSE IF RLe(new_ratio, Rat(11, 10)) THEN NEEDS_IMPROVEMENT
                         ELSE IF RLe(new_ratio, Rat(125, 100)) THEN POOR
                         ELSE CRITICAL
        new_credit    == IF new_status = EXCELLENT THEN RMul(RAbs(difference), RI(4200))
                         ELSE IF new_status = GOOD THEN RMul(RAbs(difference), RI(2100))
                         ELSE RI(0)
        new_fine      == IF new_status = POOR THEN RMul(difference, RI(2520))
                         ELSE IF new_status = CRITICAL THEN RMul(difference, RI(1260))
                         ELSE RI(0)
    IN  [reduction_percentage  |-> reduction_pct,
         new_emissions_tonnes  |-> new_emissions,
         new_status            |-> new_status,
         new_credit_amount     |-> new_credit,
         new_fine_amount       |-> new_fine,
         financial_improvement |->
             RAdd(RSub(current_result.fine_amount, new_fine),
                  RSub(new_credit, current_result.credit_amount))]

\* one pass of the loop, lines 396-428, with the rates written in the code
scenario_of(current_result, reduction_pct) ==
    LET new_emissions == RMul(current_result.emissions_actual,
                              RSub(RI(1), Rat(reduction_pct, 100)))
        new_ratio     == RDiv(new_emissions, current_result.emissions_benchmark)
        difference    == RSub(new_emissions, current_result.emissions_benchmark)
        new_status    == IF RLe(new_ratio, Rat(8, 10)) THEN EXCELLENT
                         ELSE IF RLe(new_ratio, Rat(9, 10)) THEN GOOD
                         ELSE IF RLe(new_ratio, Rat(11, 10)) THEN NEEDS_IMPROVEMENT
                         ELSE IF RLe(new_ratio, Rat(125, 100)) THEN POOR
                         ELSE CRITICAL
        new_credit    == IF new_status = EXCELLENT THEN RMul(RAbs(difference), RI(4200))
                         ELSE IF new_status = GOOD THEN RMul(RAbs(difference), RI(2100))
                         ELSE RI(0)
        new_fine      == IF new_status = POOR THEN RMul(difference, RI(1260))
                         ELSE IF new_status = CRITICAL THEN RMul(difference, RI(2520))
                         ELSE RI(0)
    IN  [reduction_percentage  |-> reduction_pct,
         new_emissions_tonnes  |-> new_emissions,
         new_status            |-> new_status,
         new_credit_amount     |-> new_credit,
         new_fine_amount       |-> new_fine,
         financial_improvement |->
             RAdd(RSub(current_result.fine_amount, new_fine),
                  RSub(new_credit, current_result.credit_amount))]

\* simulate_improvement_scenarios(current_result, reduction_percentages) on
\* the result of the last assessment
simulate_improvement_scenarios(reduction_percentages) ==
    /\ result.kind = "result"
    /\ scenarios' = [ i \in DOMAIN reduction_percentages |->
                        scenario_of(result, reduction_percentages[i]) ]
    /\ UNCHANGED <<industry_benchmarks, compliance_rules, emissions_data,
                   company_info, assessment_period_months, result, previous,
                   sort_ties, report, benchmark_info, handler_vars>>

-----------------------------------------------------------------------------
(* generate_compliance_report and get_industry_benchmark_info.             *)

NA == <<"N", "/", "A">>

\* dict.get(key, default)
get(info, key, default) ==
    IF key \in DOMAIN info THEN info[key] ELSE default

\* result.status.value.replace('_', ' ').title()
title_of(status) ==
    CASE status = EXCELLENT         -> "Excellent"
      [] status = GOOD              -> "Good"
      [] status = NEEDS_IMPROVEMENT -> "Needs Improvement"
      [] status = POOR              -> "Poor"
      [] status = CRITICAL          -> "Critical"

\* The format spec .2f: the number of hundredths nearest to x, a half going
\* to the even neighbour; inf and nan are rendered as they are.
format_2f(x) ==
    IF x.d = 0 THEN [hundredths |-> 0, special |-> x]
    ELSE LET twice == 200 * x.n
             floor == twice \div (2 * x.d)
             rest  == twice % (2 * x.d)
             h     == IF rest > x.d THEN floor + 1
                      ELSE IF rest < x.d THEN floor
                      ELSE IF floor % 2 = 0 THEN floor ELSE floor + 1
         IN  [hundredths |-> h, special |-> RI(0)]

\* lines 365-373: the credit, else the fine, else neither
financial_impact(r) ==
    IF r.credit_amount.d # 0 /\ r.credit_amount.n > 0
    THEN [line |-> "Carbon Credits Earned", amount |-> format_2f(r.credit_amount)]
    ELSE IF r.fine_amount.d # 0 /\ r.fine_amount.n > 0
    THEN [line |-> "Carbon Tax Due", amount |-> format_2f(r.fine_amount)]
    ELSE [line |-> "No penalty or credit", amount |-> format_2f(RI(0))]

\* the report of lines 346-380, as the values its lines render
report_of(r, info, clock) ==
    [kind              |-> "report",
     company           |-> get(info, "name", NA),
     industry          |-> get(info, "industry", NA),
     assessment_date   |-> Day(clock),
     status            |-> title_of(r.status),
     performance_ratio |-> format_2f(r.performance_ratio),
     actual            |-> format_2f(r.emissions_actual),
     benchmark         |-> format_2f(r.emissions_benchmark),
     difference        |-> format_2f(RSub(r.emissions_actual, r.emissions_benchmark)),
     impact            |-> financial_impact(r),
     recommendations   |-> [ i \in DOMAIN r.recommendations |->
                               <<i, r.recommendations[i]>> ]]

\* generate_compliance_report(result, company_info) on the last assessment
generate_compliance_report ==
    /\ result.kind = "result"
    /\ \E clock \in ClockChoices :
          report' = report_of(result, company_info, clock)
    /\ UNCHANGED <<industry_benchmarks, compliance_rules, emissions_data,
                   company_info, assessment_period_months, result, previous,
                   scenarios, sort_ties, benchmark_info, handler_vars>>

None ==
    [kind |-> "None"]

\* self.industry_benchmarks.get(industry.lower())
benchmark_info_of(industry) ==
    get(industry_benchmarks, lower(industry), None)

\* get_industry_benchmark_info(industry)
get_industry_benchmark_info(industry) ==
    /\ benchmark_info' = [kind |-> "returned", industry |-> industry,
                          value |-> benchmark_info_of(industry)]
    /\ UNCHANGED <<industry_benchmarks, compliance_rules, emissions_data,
                   company_info, assessment_period_months, result, previous,
                   scenarios, sort_ties, report, handler_vars>>

-----------------------------------------------------------------------------
(* Inputs.                                                                 *)

MaxRows == 3

RowChoices ==
    { Row(DateText(2025, 1, 1),  "Scope 2", "Electricity",           128000),
      Row(DateText(2025, 2, 1),  "Scope 1", "Mobile Combustion",      16000),
      Row(DateText(2025, 3, 1),  "Scope 3", "Business Travel",        48000),
      Row(DateText(2025, 2, 30), "Scope 1", "Stationary Combustion",  72000),
      Row(DateText(2025, 3, 31), "Scope 3", "Waste",                 -16000) }

Ledgers ==
    UNION { [1..k -> RowChoices] : k \in 0..MaxRows }

Technology_ == <<"T","e","c","h","n","o","l","o","g","y">>
RETAIL_     == <<"R","E","T","A","I","L">>
Agriculture_ == <<"A","g","r","i","c","u","l","t","u","r","e">>
ENERGY_     == <<"E","N","E","R","G","Y">>
fintech_    == <<"f","i","n","t","e","c","h">>

TagChoices ==
    { manufacturing, technology, Technology_, services, RETAIL_, transportation,
      Agriculture_, ENERGY_, fintech_, <<>> }

EmptyInfo ==
    [k \in {} |-> 0]

IndustryParts ==
    {EmptyInfo} \cup { "industry" :> t : t \in TagChoices }

EmployeeParts ==
    {EmptyInfo} \cup { "employees" :> e : e \in {0, 50} }

RevenueParts ==
    {EmptyInfo} \cup { "revenue_million_inr" :> v : v \in {0, 8} }

Profiles ==
    { i @@ e @@ v : i \in IndustryParts, e \in EmployeeParts, v \in RevenueParts }

Periods ==
    {6, 12}

Init ==
    /\ industry_benchmarks = load_industry_benchmarks
    /\ compliance_rules = load_compliance_rules
    /\ emissions_data \in Ledgers
    /\ company_info \in Profiles
    /\ assessment_period_months \in Periods
    /\ result = NoResult
    /\ previous = NoCall
    /\ scenarios = <<>>
    /\ sort_ties = "unobserved"
    /\ report = NotCalled
    /\ benchmark_info = NotCalled
    /\ last_call = NotCalled
    /\ emissions_file = NoFile

Next ==
    assess_compliance

Spec ==
    Init /\ [][Next]_vars

-----------------------------------------------------------------------------
(* Two calls in a row: the caller keeps the finished call (the dashboard   *)
(* stores the result in its session) and submits the form again.           *)

resubmit(rows, info, months) ==
    /\ result # NoResult
    /\ previous' = [kind |-> "call",
                    emissions_data |-> emissions_data,
                    company_info |-> company_info,
                    assessment_period_months |-> assessment_period_months,
                    result |-> result]
    /\ emissions_data' = rows
    /\ company_info' = info
    /\ assessment_period_months' = months
    /\ result' = NoResult
    /\ UNCHANGED <<industry_benchmarks, compliance_rules, scenarios, sort_ties,
                   report, benchmark_info, handler_vars>>

ElectricityRow ==
    Row(DateText(2025, 1, 1), "Scope 2", "Electricity", 128000)

PairLedgers ==
    {<<>>} \cup { <<r>> : r \in RowChoices } \cup { <<ElectricityRow, r>> : r \in RowChoices }

PairProfiles ==
    { ("industry" :> technology) @@ ("employees" :> e) : e \in {40, 50} }

PairPeriods ==
    {12}

InitPair ==
    /\ industry_benchmarks = load_industry_benchmarks
    /\ compliance_rules = load_compliance_rules
    /\ emissions_data \in PairLedgers
    /\ company_info \in PairProfiles
    /\ assessment_period_months \in PairPeriods
    /\ result = NoResult
    /\ previous = NoCall
    /\ scenarios = <<>>
    /\ sort_ties = "unobserved"
    /\ report = NotCalled
    /\ benchmark_info = NotCalled
    /\ last_call = NotCalled
    /\ emissions_file = NoFile

NextPair ==
    \/ assess_compliance
    \/ \E rows \in PairLedgers, info \in PairProfiles, months \in PairPeriods :
          resubmit(rows, info, months)

SpecPair ==
    InitPair /\ [][NextPair]_vars

-----------------------------------------------------------------------------
(* Ledgers for the recommendations: five categories, one of them without   *)
(* a recommendation of its own, two of them with equal emissions; and      *)
(* frames that lack the scope or the category column.                      *)

MaxRecRows == 4

RecRowChoices ==
    { Row(DateText(2025, 1, 15), "Scope 2", "Electricity",           128000),
      Row(DateText(2025, 2, 15), "Scope 1", "Mobile Combustion",      48000),
      Row(DateText(2025, 3, 15), "Scope 3", "Business Travel",        48000),
      Row(DateText(2025, 4, 15), "Scope 1", "Stationary Combustion",  72000),
      Row(DateText(2025, 5, 15), "Scope 3", "Waste",                  64000) }

\* the frame without column c
WithoutColumn(rows, c) ==
    [ i \in DOMAIN rows |-> [ k \in (DOMAIN rows[i]) \ {c} |-> rows[i][k] ] ]

RecLedgers ==
    UNION { [1..k -> RecRowChoices] : k \in 0..MaxRecRows }
        \cup { WithoutColumn(rows, c) :
                   rows \in [1..1 -> RecRowChoices] \cup [1..2 -> RecRowChoices],
                   c \in {"scope", "category"} }

RecProfiles ==
    { ("industry" :> technology) @@ ("employees" :> e) : e \in {25, 50} }

RecPeriods ==
    {12}

InitRec ==
    /\ industry_benchmarks = load_industry_benchmarks
    /\ compliance_rules = load_compliance_rules
    /\ emissions_data \in RecLedgers
    /\ company_info \in RecProfiles
    /\ assessment_period_months \in RecPeriods
    /\ result = NoResult
    /\ previous = NoCall
    /\ scenarios = <<>>
    /\ sort_ties = "unobserved"
    /\ report = NotCalled
    /\ benchmark_info = NotCalled
    /\ last_call = NotCalled
    /\ emissions_file = NoFile

SpecRec ==
    InitRec /\ [][Next]_vars

-----------------------------------------------------------------------------
(* An assessment followed by simulations of reductions.                    *)

MaxScenarios == 2

ReductionChoices ==
    {0, 25, 50, 100, 120}

ReductionLists ==
    UNION { [1..k -> ReductionChoices] : k \in 1..MaxScenarios }

NextSim ==
    \/ assess_compliance
    \/ \E reduction_percentages \in ReductionLists :
          simulate_improvement_scenarios(reduction_percentages)

SpecSim ==
    InitPair /\ [][NextSim]_vars

-----------------------------------------------------------------------------
(* Calls with any integer for the period: the method itself accepts what   *)
(* the form's 1-36 range would have kept out.                              *)

AnyPeriods ==
    {-12, 0, 12}

AnyProfiles ==
    PairProfiles \cup { ("industry" :> RETAIL_) @@ ("revenue_million_inr" :> 8) }

InitAnyPeriod ==
    /\ industry_benchmarks = load_industry_benchmarks
    /\ compliance_rules = load_compliance_rules
    /\ emissions_data \in PairLedgers
    /\ company_info \in AnyProfiles
    /\ assessment_period_months \in AnyPeriods
    /\ result = NoResult
    /\ previous = NoCall
    /\ scenarios = <<>>
    /\ sort_ties = "unobserved"
    /\ report = NotCalled
    /\ benchmark_info = NotCalled
    /\ last_call = NotCalled
    /\ emissions_file = NoFile

SpecAnyPeriod ==
    InitAnyPeriod /\ [][Next]_vars

-----------------------------------------------------------------------------
(* The same call made twice: ledgers with equal category sums, and a       *)
(* ledger without any parseable date.                                      *)

MobileRow ==
    Row(DateText(2025, 2, 15), "Scope 1", "Mobile Combustion", 48000)

TravelRow ==
    Row(DateText(2025, 3, 15), "Scope 3", "Business Travel", 48000)

UndatedRow ==
    Row(DateText(2025, 2, 30), "Scope 1", "Stationary Combustion", 72000)

TwiceLedgers ==
    { <<>>, <<ElectricityRow>>, <<UndatedRow>>, <<MobileRow, TravelRow>>,
      <<TravelRow, MobileRow, ElectricityRow>>, <<UndatedRow, UndatedRow>> }

InitTwice ==
    /\ industry_benchmarks = load_industry_benchmarks
    /\ compliance_rules = load_compliance_rules
    /\ emissions_data \in TwiceLedgers
    /\ company_info \in PairProfiles
    /\ assessment_period_months \in PairPeriods
    /\ result = NoResult
    /\ previous = NoCall
    /\ scenarios = <<>>
    /\ sort_ties = "unobserved"
    /\ report = NotCalled
    /\ benchmark_info = NotCalled
    /\ last_call = NotCalled
    /\ emissions_file = NoFile

NextTwice ==
    \/ assess_compliance
    \/ \E rows \in TwiceLedgers, info \in PairProfiles, months \in PairPeriods :
          resubmit(rows, info, months)

SpecTwice ==
    InitTwice /\ [][NextTwice]_vars

-----------------------------------------------------------------------------
(* Ledgers that differ in their dates only: a date inside the declared     *)
(* period, one long after it, one that is no date, and an empty cell.      *)

DateChoices ==
    { DateText(2025, 1, 1), DateText(2031, 7, 4), DateText(2025, 2, 30),
      DateText(0, 0, 0) }

DatedRowChoices ==
    { Row(date, "Scope 2", "Electricity", 128000) : date \in DateChoices }
        \cup { Row(date, "Scope 3", "Business Travel", 48000) : date \in DateChoices }

DatedLedgers ==
    UNION { [1..k -> DatedRowChoices] : k \in 0..2 }

DatedProfiles ==
    { ("industry" :> technology) @@ ("employees" :> 50) }

InitDates ==
    /\ industry_benchmarks = load_industry_benchmarks
    /\ compliance_rules = load_compliance_rules
    /\ emissions_data \in DatedLedgers
    /\ company_info \in DatedProfiles
    /\ assessment_period_months \in PairPeriods
    /\ result = NoResult
    /\ previous = NoCall
    /\ scenarios = <<>>
    /\ sort_ties = "unobserved"
    /\ report = NotCalled
    /\ benchmark_info = NotCalled
    /\ last_call = NotCalled
    /\ emissions_file = NoFile

NextDates ==
    \/ assess_compliance
    \/ \E rows \in DatedLedgers, info \in DatedProfiles, months \in PairPeriods :
          resubmit(rows, info, months)

SpecDates ==
    InitDates /\ [][NextDates]_vars

-----------------------------------------------------------------------------
(* One framework shared by a caller who assesses, simulates, reports and   *)
(* looks benchmarks up in any order, and assesses the same form again.     *)

Acme == <<"A", "c", "m", "e">>

SharedLedgers ==
    PairLedgers \cup { <<MobileRow, TravelRow>> }

SharedProfiles ==
    PairProfiles
        \cup { ("name" :> Acme) @@ ("industry" :> Technology_) @@ ("employees" :> 50),
               ("industry" :> fintech_) @@ ("employees" :> 50) }

SharedReductions ==
    { <<25>>, <<50, 100>> }

InitShared ==
    /\ industry_benchmarks = load_industry_benchmarks
    /\ compliance_rules = load_compliance_rules
    /\ emissions_data \in SharedLedgers
    /\ company_info \in SharedProfiles
    /\ assessment_period_months \in PairPeriods
    /\ result = NoResult
    /\ previous = NoCall
    /\ scenarios = <<>>
    /\ sort_ties = "unobserved"
    /\ report = NotCalled
    /\ benchmark_info = NotCalled
    /\ last_call = NotCalled
    /\ emissions_file = NoFile

NextShared ==
    \/ assess_compliance
    \/ resubmit(emissions_data, company_info, assessment_period_months)
    \/ \E reduction_percentages \in SharedReductions :
          simulate_improvement_scenarios(reduction_percentages)
    \/ generate_compliance_report
    \/ \E industry \in TagChoices :
          get_industry_benchmark_info(industry)

SpecShared ==
    InitShared /\ [][NextShared]_vars

-----------------------------------------------------------------------------
(* DataHandler: the ledger kept in memory and its file emissions.json.     *)
(* A cell is a number or a text, as a form field or a CSV field hands it   *)
(* over; the numbers used are whole, so floats are written as integers.    *)

Number(n) ==
    [kind |-> "number", value |-> n]

Text(chars) ==
    [kind |-> "text", chars |-> chars]

Float(x) ==
    [kind |-> "float", value |-> x]

Digits ==
    <<"0", "1", "2", "3", "4", "5", "6", "7", "8", "9">>

IsDigit(c) ==
    \E i \in DOMAIN Digits : Digits[i] = c

DigitValue(c) ==
    (CHOOSE i \in DOMAIN Digits : Digits[i] = c) - 1

\* the value of a sequence of digits
RECURSIVE Decimal(_)
Decimal(chars) ==
    IF chars = <<>> THEN 0
    ELSE 10 * Decimal(SubSeq(chars, 1, Len(chars) - 1)) + DigitValue(chars[Len(chars)])

IsDecimal(chars) ==
    Len(chars) > 0 /\ \A i \in DOMAIN chars : IsDigit(chars[i])

\* float(x): a number as it is, a text by its digits and sign, and
\* ValueError for a text that is no number
float(cell) ==
    IF cell.kind = "number" THEN Float(cell.value)
    ELSE IF IsDecimal(cell.chars) THEN Float(Decimal(cell.chars))
    ELSE IF Len(cell.chars) > 1 /\ cell.chars[1] = "-" /\ IsDecimal(Tail(cell.chars))
    THEN Float(-Decimal(Tail(cell.chars)))
    ELSE Raised("ValueError")

\* pd.Timestamp(date) and pd.to_datetime(column), without errors='coerce':
\* an empty cell gives NaT, a text that is no date raises
Timestamp(cell) ==
    IF cell = DateText(0, 0, 0) THEN NaT
    ELSE IF to_datetime(cell).valid THEN to_datetime(cell)
    ELSE Raised("ValueError")

\* Series.dt.strftime('%Y-%m-%d'): the date of a timestamp, nothing for NaT
strftime(stamp) ==
    IF ~stamp.valid THEN DateText(0, 0, 0)
    ELSE CHOOSE cell \in { DateText(y, m, d) : y \in 2025..2026, m \in 1..12, d \in 1..31 } :
             to_datetime(cell) = stamp

\* a ledger row of the handler; the columns the properties read
Entry(date, scope, category, quantity, emission_factor, kg) ==
    [date |-> date, scope |-> scope, category |-> category, quantity |-> quantity,
     emission_factor |-> emission_factor, emissions_kgCO2e |-> kg]

\* What save_emissions_data may meet: the file is written; open() raises
\* (no permission, no directory) and the file is as it was; or json.dump
\* raises after open(..., 'w') has emptied the file (disk full).
SaveOutcomes ==
    {"saved", "open_raises", "dump_raises"}

\* the file after save_emissions_data, lines 80-88
save_emissions_data(rows, outcome) ==
    IF outcome = "saved"
    THEN [kind    |-> "json",
          records |-> [ i \in DOMAIN rows |->
                          [rows[i] EXCEPT !.date = strftime(@)] ]]
    ELSE IF outcome = "open_raises" THEN emissions_file
    ELSE [kind |-> "cut short"]

\* save_emissions_data is reached only when nothing raised before it
save_outcomes(raised) ==
    IF raised THEN {"saved"} ELSE SaveOutcomes

MaxEntries == 2

\* add_emission_entry(date, ..., quantity, unit, emission_factor, ...)
add_emission_entry(date, scope, category, quantity, emission_factor) ==
    LET q      == float(quantity)
        f      == float(emission_factor)
        stamp  == Timestamp(date)
        raised == q.kind = "error" \/ f.kind = "error" \/ stamp \in {Raised("ValueError")}
        grown  == Append(emissions_data,
                         Entry(stamp, scope, category, q.value, f.value,
                               q.value * f.value))
    IN  /\ Len(emissions_data) < MaxEntries
        /\ \E outcome \in save_outcomes(raised) :
              /\ emissions_data' = IF raised THEN emissions_data ELSE grown
              /\ emissions_file' = IF raised THEN emissions_file
                                   ELSE save_emissions_data(grown, outcome)
              /\ last_call' = [kind        |-> "call",
                               op          |-> "add_emission_entry",
                               before      |-> emissions_data,
                               precomputed |-> FALSE,
                               success     |-> ~raised /\ outcome = "saved",
                               message     |-> "" ]
        /\ UNCHANGED <<industry_benchmarks, compliance_rules, company_info,
                       assessment_period_months, result, previous, scenarios,
                       sort_ties, report, benchmark_info>>

\* A frame as pd.read_csv hands it over: its columns and its rows.
required_columns ==
    {"date", "scope", "category", "activity", "quantity", "unit", "emission_factor"}

\* read_csv keeps a field that is a number as a number, any other as text
read_field(cell) ==
    IF float(cell).kind = "float" THEN float(cell).value ELSE cell

\* Series.astype(float) raises if one of the cells does
astype_float_raises(df, column) ==
    \E i \in DOMAIN df.rows : float(df.rows[i][column]).kind = "error"

\* lines 176-187: the rows import_csv appends
imported_rows(df) ==
    [ i \in DOMAIN df.rows |->
        LET row == df.rows[i]
        IN  Entry(Timestamp(row["date"]), row["scope"], row["category"],
                  read_field(row["quantity"]), read_field(row["emission_factor"]),
                  IF "emissions_kgCO2e" \in df.columns
                  THEN read_field(row["emissions_kgCO2e"])
                  ELSE float(row["quantity"]).value * float(row["emission_factor"]).value) ]

\* import_csv(file_path_or_buffer), df being what pd.read_csv returns
import_csv(df) ==
    LET missing_columns == required_columns \ df.columns
        raised ==
            \/ \E i \in DOMAIN df.rows : Timestamp(df.rows[i]["date"]) = Raised("ValueError")
            \/ /\ "emissions_kgCO2e" \notin df.columns
               /\ astype_float_raises(df, "quantity") \/ astype_float_raises(df, "emission_factor")
        grown == emissions_data \o imported_rows(df)
        call  == [kind        |-> "call",
                  op          |-> "import_csv",
                  before      |-> emissions_data,
                  precomputed |-> "emissions_kgCO2e" \in df.columns]
    IN  /\ Len(emissions_data) + Len(df.rows) <= MaxEntries
        /\ IF missing_columns # {}
           THEN /\ last_call' = call @@ [success |-> FALSE,
                                         message |-> "Missing required columns"]
                /\ UNCHANGED <<emissions_data, emissions_file>>
           ELSE \E outcome \in save_outcomes(raised) :
                   /\ emissions_data' = IF raised THEN emissions_data ELSE grown
                   /\ emissions_file' = IF raised THEN emissions_file
                                        ELSE save_emissions_data(grown, outcome)
                   /\ last_call' =
                          IF ~raised /\ outcome = "saved"
                          THEN call @@ [success |-> TRUE,
                                        message |-> "Successfully imported"]
                          ELSE call @@ [success |-> FALSE,
                                        message |-> "Error importing CSV"]
        /\ UNCHANGED <<industry_benchmarks, compliance_rules, company_info,
                       assessment_period_months, result, previous, scenarios,
                       sort_ties, report, benchmark_info>>

\* The calls tried on a handler that starts with the empty ledger.
EntryDates ==
    { DateText(2025, 1, 1), DateText(2025, 2, 30) }

QuantityCells ==
    { Number(5), Number(-5), Text(<<"2">>), Text(<<"a", "b", "c">>) }

FactorCells ==
    { Number(2), Text(<<"x">>) }

CsvRow(date, quantity) ==
    [date |-> date, scope |-> "Scope 2", category |-> "Electricity",
     activity |-> "Grid electricity", quantity |-> quantity, unit |-> "kWh",
     emission_factor |-> Text(<<"2">>)]

CsvDates ==
    { DateText(2025, 1, 1), DateText(2025, 2, 30), DateText(0, 0, 0) }

CsvQuantities ==
    { Text(<<"5">>), Text(<<"-", "5">>), Text(<<"a", "b", "c">>) }

Frame(rows) ==
    [columns |-> required_columns, rows |-> rows]

\* the frame with a column emissions_kgCO2e, every row holding cell
WithEmissions(df, cell) ==
    [columns |-> df.columns \cup {"emissions_kgCO2e"},
     rows    |-> [ i \in DOMAIN df.rows |-> df.rows[i] @@ ("emissions_kgCO2e" :> cell) ]]

\* the frame without the column unit
WithoutUnit(df) ==
    [columns |-> df.columns \ {"unit"},
     rows    |-> [ i \in DOMAIN df.rows |->
                     [ c \in (DOMAIN df.rows[i]) \ {"unit"} |-> df.rows[i][c] ] ]]

GoodFrame ==
    Frame(<< CsvRow(DateText(2025, 1, 1), Text(<<"5">>)) >>)

CsvFrames ==
    { Frame(<< CsvRow(date, quantity) >>) : date \in CsvDates, quantity \in CsvQuantities }
        \cup { Frame(<< CsvRow(DateText(2025, 1, 1), Text(<<"5">>)),
                        CsvRow(DateText(2025, 1, 1), quantity) >>) :
                   quantity \in CsvQuantities }
        \cup { WithEmissions(GoodFrame, cell) : cell \in { Text(<<"7">>), Text(<<"-", "7">>) } }
        \cup { WithoutUnit(GoodFrame) }

InitHandler ==
    /\ industry_benchmarks = load_industry_benchmarks
    /\ compliance_rules = load_compliance_rules
    /\ emissions_data = <<>>
    /\ company_info \in RecProfiles
    /\ assessment_period_months \in RecPeriods
    /\ result = NoResult
    /\ previous = NoCall
    /\ scenarios = <<>>
    /\ sort_ties = "unobserved"
    /\ report = NotCalled
    /\ benchmark_info = NotCalled
    /\ last_call = NotCalled
    /\ emissions_file = NoFile

NextHandler ==
    \/ \E date \in EntryDates, quantity \in QuantityCells, emission_factor \in FactorCells :
          add_emission_entry(date, "Scope 2", "Electricity", quantity, emission_factor)
    \/ \E df \in CsvFrames :
          import_csv(df)

SpecHandler ==
    InitHandler /\ [][NextHandler]_vars

-----------------------------------------------------------------------------
(* Properties.                                                             *)

Returned ==
    result.kind = "result"

HasHeadcount ==
    "employees" \in DOMAIN company_info /\ company_info["employees"] > 0

HasRevenue ==
    "revenue_million_inr" \in DOMAIN company_info /\ company_info["revenue_million_inr"] > 0

C2_StatusBands ==
    Returned =>
        LET n == result.performance_ratio.n
            d == result.performance_ratio.d
        IN  /\ d > 0
            /\ result.status \in ComplianceStatus
            /\ (result.status = EXCELLENT) <=> (10 * n <= 8 * d)
            /\ (result.status = GOOD) <=> (10 * n > 8 * d /\ 10 * n <= 9 * d)
            /\ (result.status = NEEDS_IMPROVEMENT) <=> (10 * n > 9 * d /\ 10 * n <= 11 * d)
            /\ (result.status = POOR) <=> (10 * n > 11 * d /\ 100 * n <= 125 * d)
            /\ (result.status = CRITICAL) <=> (100 * n > 125 * d)

\* a ratio exactly on the 1.10 boundary, which gets the better band
C2_Witness ==
    /\ Returned
    /\ result.performance_ratio = [n |-> 11, d |-> 10]
    /\ result.status = NEEDS_IMPROVEMENT

\* C3: of two results, the one with the larger ratio never has the larger score.
C3_ScoreMonotone ==
    (Returned /\ previous.kind = "call" /\ previous.result.kind = "result") =>
        LET r1 == previous.result.performance_ratio
            r2 == result.performance_ratio
            s1 == previous.result.score
            s2 == result.score
        IN  (r1.n * r2.d <= r2.n * r1.d) => (s1.n * s2.d >= s2.n * s1.d)

\* two results in different bands with different scores, smaller ratio first
C3_Witness ==
    /\ Returned
    /\ previous.kind = "call"
    /\ previous.result.status = GOOD
    /\ result.status = POOR
    /\ RLt(result.score, previous.result.score)
    /\ RLt(RI(40), result.score)

\* C4: at each band boundary the formula of the band that ends there and the
\* formula of the next band give the same score: 90 at 0.80, 75 at 0.90,
\* 60 at 1.10, 40 at 1.25; and that is the score of the result.
C4_ContinuousAtBoundaries ==
    Returned =>
        LET r == result.performance_ratio
        IN  /\ r = [n |-> 4, d |-> 5] =>
                  /\ score_excellent(r) = RI(90)
                  /\ score_good(r) = RI(90)
                  /\ result.score = RI(90)
            /\ r = [n |-> 9, d |-> 10] =>
                  /\ score_good(r) = RI(75)
                  /\ score_needs_improvement(r) = RI(75)
                  /\ result.score = RI(75)
            /\ r = [n |-> 11, d |-> 10] =>
                  /\ score_needs_improvement(r) = RI(60)
                  /\ score_poor(r) = RI(60)
                  /\ result.score = RI(60)
            /\ r = [n |-> 5, d |-> 4] =>
                  /\ score_poor(r) = RI(40)
                  /\ score_critical(r) = RI(40)
                  /\ result.score = RI(40)

\* a result whose ratio is exactly 1.25
C4_Witness ==
    /\ Returned
    /\ result.performance_ratio = [n |-> 5, d |-> 4]
    /\ result.status = POOR

\* C5: the score of every result lies in [0, 100].
C5_ScoreInRange ==
    Returned =>
        /\ result.score.d > 0
        /\ 0 <= result.score.n
        /\ result.score.n <= 100 * result.score.d

\* a negative ratio, whose branch formula gives more than 100
C5_Witness ==
    /\ Returned
    /\ result.performance_ratio.n < 0
    /\ RLt(RI(100), branch_score(result.performance_ratio))
    /\ result.score = RI(100)

IsZero(q) ==
    q.n = 0

IsPositive(q) ==
    q.n > 0 /\ q.d > 0

\* actual_tonnes - benchmark_tonnes of the result, as a pair of integers
\* (numerator over the positive denominator a.d * b.d)
ExcessNumerator ==
    result.emissions_actual.n * result.emissions_benchmark.d
        - result.emissions_benchmark.n * result.emissions_actual.d

IsWorkedExample ==
    /\ "industry" \in DOMAIN company_info
    /\ company_info["industry"] = technology
    /\ "employees" \in DOMAIN company_info
    /\ company_info["employees"] = 50
    /\ assessment_period_months = 12
    /\ total_emissions_kg(emissions_data) = 144000

CanonicalKey ==
    (manufacturing :> manufacturing) @@ (technology :> technology) @@
    (Technology_ :> technology) @@ (services :> services) @@ (RETAIL_ :> retail) @@
    (transportation :> transportation) @@ (Agriculture_ :> agriculture) @@
    (ENERGY_ :> energy)

SevenKeys ==
    {manufacturing, technology, services, retail, transportation, agriculture, energy}

\* C10: the tag is resolved whatever its case; a tag that is missing or is
\* none of the seven keys after lower-casing uses the "services" record; the
\* call returns a result and raises nothing.
C10_TagResolution ==
    result # NoResult =>
        LET known == "industry" \in DOMAIN company_info
                         /\ company_info["industry"] \in DOMAIN CanonicalKey
            key   == IF known THEN CanonicalKey[company_info["industry"]] ELSE services
        IN  /\ DOMAIN industry_benchmarks = SevenKeys
            /\ result.kind = "result"
            /\ result.emissions_benchmark =
                   RDiv(benchmark_emissions_kg(industry_benchmarks[key], company_info,
                                               assessment_period_months),
                        RI(1000))

\* an unrecognised tag
C10_Witness ==
    /\ Returned
    /\ "industry" \in DOMAIN company_info
    /\ company_info["industry"] = fintech_
    /\ ~ HasHeadcount
    /\ ~ HasRevenue
    /\ assessment_period_months = 12
    /\ result.emissions_benchmark = RI(28)

-----------------------------------------------------------------------------
(* C11 - C20.                                                              *)

\* the sum of the emissions cells of the rows with index in S
RECURSIVE SumKg(_, _)
SumKg(rows, S) ==
    IF S = {} THEN 0
    ELSE LET i == CHOOSE x \in S : TRUE
         IN  rows[i].emissions_kgCO2e + SumKg(rows, S \ {i})

Parseable(rows) ==
    { i \in DOMAIN rows : to_datetime(rows[i].date).valid }

\* C11: the actual emissions of a result are the sum of emissions_kgCO2e over
\* every ledger row, rows with an unparseable date included; such rows are
\* left out only of the min/max date span of the period description and of
\* the anchor of the next review date.
C11_SumOverEveryRow ==
    Returned =>
        LET ok   == Parseable(emissions_data)
            days == { to_datetime(emissions_data[i].date).day : i \in ok }
            desc == result.period_description
        IN  /\ result.emissions_actual
                 = Rat(SumKg(emissions_data, DOMAIN emissions_data), 1000)
            /\ desc.has_dates <=> ok # {}
            /\ ok # {} =>
                 /\ desc.min_date \in days /\ \A x \in days : desc.min_date <= x
                 /\ desc.max_date \in days /\ \A x \in days : desc.max_date >= x
                 /\ desc.actual_days = desc.max_date - desc.min_date + 1
                 /\ result.next_review_date
                      = Day(desc.max_date + review_delta_days(assessment_period_months))

\* a result for a ledger that mixes dated rows with an undated row that
\* carries emissions, the undated row being the latest in text order
C11_Witness ==
    /\ Returned
    /\ \E i, j \in DOMAIN emissions_data :
          /\ i \notin Parseable(emissions_data)
          /\ emissions_data[i].emissions_kgCO2e # 0
          /\ j \in Parseable(emissions_data)
    /\ result.emissions_actual = RI(216)
    /\ result.period_description.actual_days = 32


C13_EmptyLedgerRecommendations ==
    (Returned /\ emissions_data = <<>>) =>
        result.recommendations
            = << REC_SHARE_BEST_PRACTICES,
                 REC_EXPLORE_RENEWABLES,
                 REC_DOCUMENT_STRATEGIES >>

\* what the code returns instead: an EXCELLENT result without recommendations
C13_Divergence ==
    /\ Returned
    /\ emissions_data = <<>>
    /\ result.status = EXCELLENT
    /\ result.recommendations = <<>>


\* C14: the recommendation list of every result has at most 8 items, and at
\* least one item whenever the ledger has at least one row.
C14_RecommendationCount ==
    Returned =>
        /\ Len(result.recommendations) <= 8
        /\ Len(emissions_data) >= 1 => Len(result.recommendations) >= 1

\* the longest list there is: seven items, for a ledger with rows
C14_Witness ==
    /\ Returned
    /\ Len(emissions_data) >= 1
    /\ Len(result.recommendations) = 7


\* the generic items a status tier may show, and the category-specific items
TierTexts(status) ==
    IF status \in {EXCELLENT, GOOD}
    THEN {REC_SHARE_BEST_PRACTICES, REC_EXPLORE_RENEWABLES, REC_DOCUMENT_STRATEGIES}
    ELSE IF status = NEEDS_IMPROVEMENT
    THEN {REC_ENERGY_EFFICIENCY, REC_COMMUTING_PROGRAMS, REC_AGGRESSIVE_TARGETS}
    ELSE {REC_IMMEDIATE_ACTION, REC_ENERGY_AUDIT, REC_RENEWABLE_PROCUREMENT,
          REC_ENGAGE_EMPLOYEES}

SpecificTexts ==
    {REC_ELECTRICITY, REC_MOBILE_COMBUSTION, REC_BUSINESS_TRAVEL,
     REC_STATIONARY_COMBUSTION}

\* the generic block of a tier, in its fixed order
TierBlock(status) ==
    IF status \in {EXCELLENT, GOOD}
    THEN <<REC_SHARE_BEST_PRACTICES, REC_EXPLORE_RENEWABLES, REC_DOCUMENT_STRATEGIES>>
    ELSE IF status = NEEDS_IMPROVEMENT
    THEN <<REC_ENERGY_EFFICIENCY, REC_COMMUTING_PROGRAMS, REC_AGGRESSIVE_TARGETS>>
    ELSE <<REC_IMMEDIATE_ACTION, REC_ENERGY_AUDIT, REC_RENEWABLE_PROCUREMENT,
           REC_ENGAGE_EMPLOYEES>>

\* C15 as stated: for a non-empty ledger the list starts with exactly three
\* generic recommendations of the status tier, and every item after the
\* third is a category-specific recommendation.
C15_AsStated ==
    (Returned /\ Len(emissions_data) >= 1) =>
        LET recs == result.recommendations
        IN  /\ Len(recs) >= 3
            /\ \A i \in 1..3 : recs[i] \in TierTexts(result.status)
            /\ \A i \in 4..Len(recs) : recs[i] \in SpecificTexts

\* C15 amended: for a non-empty ledger the list starts with the generic
\* block of the status tier, in its fixed order: three items for
\* {EXCELLENT, GOOD} and for {NEEDS_IMPROVEMENT}, four for {POOR, CRITICAL};
\* every item after the block is a category-specific recommendation.
C15_Amended ==
    (Returned /\ Len(emissions_data) >= 1) =>
        LET recs == result.recommendations
            k    == IF result.status \in {POOR, CRITICAL} THEN 4 ELSE 3
        IN  /\ Len(recs) >= k
            /\ SubSeq(recs, 1, k) = TierBlock(result.status)
            /\ \A i \in (k + 1)..Len(recs) : recs[i] \in SpecificTexts

\* a POOR or CRITICAL result whose fourth item is generic and whose fifth
\* is category-specific
C15_Witness ==
    /\ Returned
    /\ Len(emissions_data) >= 1
    /\ result.status \in {POOR, CRITICAL}
    /\ Len(result.recommendations) >= 5
    /\ result.recommendations[4] = REC_ENGAGE_EMPLOYEES
    /\ result.recommendations[5] \in SpecificTexts


\* the category a category-specific item belongs to
CategoryOfText(text) ==
    IF text = REC_ELECTRICITY THEN "Electricity"
    ELSE IF text = REC_MOBILE_COMBUSTION THEN "Mobile Combustion"
    ELSE IF text = REC_BUSINESS_TRAVEL THEN "Business Travel"
    ELSE IF text = REC_STATIONARY_COMBUSTION THEN "Stationary Combustion"
    ELSE "none"

\* summed emissions of category c in the ledger of the state
SummedKg(c) ==
    SumKg(emissions_data, { i \in DOMAIN emissions_data : emissions_data[i].category = c })

\* the categories of the ledger with a larger sum than c: when there are
\* fewer than three, c may be among the top three
LargerThan(c) ==
    { o \in categories(emissions_data) : SummedKg(o) > SummedKg(c) }

\* the other categories with at least the sum of c: when there are fewer
\* than three, c is among the top three whatever the order of equal sums
AtLeast(c) ==
    { o \in categories(emissions_data) \ {c} : SummedKg(o) >= SummedKg(c) }

LookupCategories ==
    {"Electricity", "Mobile Combustion", "Business Travel", "Stationary Combustion"}

\* the items of the list that are not generic items of the tier, in order
SpecificPart ==
    LET NotGeneric(t) == t \notin TierTexts(result.status)
    IN  SelectSeq(result.recommendations, NotGeneric)

\* C16: the category-specific recommendations follow the generic block and
\* come only from the three categories with the largest summed emissions, at
\* most one per category, in descending order of the summed emissions (a
\* lookup category that is surely among the three has its item); a category
\* among the top three that is none of Electricity, Mobile Combustion,
\* Business Travel and Stationary Combustion contributes no item but keeps
\* its place, and a category ranked fourth or lower never contributes one.
C16_CategoryRecommendations ==
    (Returned /\ Len(emissions_data) >= 1) =>
        LET recs == result.recommendations
            part == SpecificPart
            n    == Len(recs) - Len(part)
            cats == categories(emissions_data)
        IN  /\ part = SubSeq(recs, n + 1, Len(recs))
            /\ \A i \in DOMAIN part :
                  /\ part[i] \in SpecificTexts
                  /\ CategoryOfText(part[i]) \in cats
                  /\ Cardinality(LargerThan(CategoryOfText(part[i]))) < 3
            /\ \A i, j \in DOMAIN part :
                  i < j => /\ part[i] # part[j]
                           /\ SummedKg(CategoryOfText(part[i]))
                                  >= SummedKg(CategoryOfText(part[j]))
            /\ \A c \in cats \cap LookupCategories :
                  Cardinality(AtLeast(c)) < 3
                      => \E i \in DOMAIN part : CategoryOfText(part[i]) = c
            /\ Len(part) + Cardinality({ c \in cats \ LookupCategories :
                                            Cardinality(AtLeast(c)) < 3 }) <= 3

\* four categories: Waste, which has no item of its own, is among the top
\* three and Mobile Combustion is fourth, so only two items follow the block
C16_Witness ==
    /\ Returned
    /\ Cardinality(categories(emissions_data)) = 4
    /\ Cardinality(LargerThan("Waste")) < 3
    /\ Cardinality(LargerThan("Mobile Combustion")) = 3
    /\ SpecificPart = <<REC_ELECTRICITY, REC_STATIONARY_COMBUSTION>>


\* what assess_compliance computes for a ledger totalling the current
\* emissions cut by p percent, for the same profile and period
FreshAssessment(p) ==
    LET kg == (total_emissions_kg(emissions_data) * (100 - p)) \div 100
    IN  ComplianceResult(<<Row(DateText(2025, 1, 1), "Scope 2", "Electricity", kg)>>,
                         company_info, assessment_period_months)

\* C17: for a current result with a positive benchmark and every reduction
\* percentage p, the scenario of simulate_improvement_scenarios has the
\* status, fine and credit that assess_compliance returns for a ledger
\* totalling emissions_actual * (1 - p/100) against the same benchmark.
C17_ScenarioIsFreshAssessment ==
    (Returned /\ IsPositive(result.emissions_benchmark)) =>
        \A i \in DOMAIN scenarios :
            LET scenario == scenarios[i]
                fresh    == FreshAssessment(scenario.reduction_percentage)
            IN  /\ fresh.emissions_actual = scenario.new_emissions_tonnes
                /\ fresh.emissions_benchmark = result.emissions_benchmark
                /\ scenario.new_status = fresh.status
                /\ scenario.new_fine_amount = fresh.fine_amount
                /\ scenario.new_credit_amount = fresh.credit_amount

\* the worked case: from ratio 1.6 (256 t against 160 t, CRITICAL) a cut of
\* 25% gives 192 t, ratio 1.2, POOR and a fine of 0.2 * 160 * 1260 = 40320
C17_Witness ==
    /\ Returned
    /\ result.performance_ratio = Rat(16, 10)
    /\ result.status = CRITICAL
    /\ \E i \in DOMAIN scenarios :
          /\ scenarios[i].reduction_percentage = 25
          /\ scenarios[i].new_emissions_tonnes = RI(192)
          /\ scenarios[i].new_status = POOR
          /\ scenarios[i].new_fine_amount = RI(40320)
          /\ scenarios[i].new_credit_amount = RI(0)


ResolvedBenchmark ==
    benchmark_emissions_tonnes(company_info, assessment_period_months)

\* C18: when the resolved benchmark is exactly 0 (for example a period of 0
\* months) the call fails with a division error at the ratio step and
\* returns no result.
C18_ZeroBenchmarkFails ==
    (result # NoResult /\ IsZero(ResolvedBenchmark)) =>
        result = Raised("ZeroDivisionError")

\* what the code returns for a numeric ledger and a period of 0: a CRITICAL
\* result with an infinite ratio, score 0 and a fine on the whole emissions
C18_Divergence ==
    /\ Returned
    /\ assessment_period_months = 0
    /\ result.emissions_benchmark = RI(0)
    /\ result.performance_ratio = PosInf
    /\ result.status = CRITICAL
    /\ result.score = RI(0)
    /\ result.fine_amount = RMul(result.emissions_actual, RI(2520))

\* C19: when the period is negative the call fails with an error and returns
\* no result; no result is ever computed from a non-positive benchmark.
C19_NegativePeriodFails ==
    /\ (result # NoResult /\ assessment_period_months < 0) => result.kind = "error"
    /\ Returned => IsPositive(result.emissions_benchmark)

\* what the code returns for 128 t and a period of -12 months: benchmark
\* -160 t, ratio -0.8, EXCELLENT with score 100, no credit and no fine
C19_Divergence ==
    /\ Returned
    /\ assessment_period_months < 0
    /\ result.emissions_actual = RI(128)
    /\ result.emissions_benchmark = RI(-160)
    /\ result.performance_ratio = Rat(-8, 10)
    /\ result.status = EXCELLENT
    /\ result.score = RI(100)
    /\ result.credit_amount = RI(0)
    /\ result.fine_amount = RI(0)

\* C20: when a ledger with rows lacks the category column or the scope
\* column, the call still returns a complete result and raises no error.
C20_MissingColumnTolerated ==
    (result # NoResult /\ Len(emissions_data) >= 1
         /\ ~({"scope", "category"} \subseteq columns(emissions_data))) =>
        Returned

\* what the code does for a one-row frame without the category column
C20_Divergence ==
    /\ result = Raised("KeyError")
    /\ Len(emissions_data) = 1
    /\ "category" \notin columns(emissions_data)
    /\ "scope" \in columns(emissions_data)


-----------------------------------------------------------------------------
(* C21 - C30.                                                              *)

\* the day the next review is anchored on: the latest parseable date of the
\* ledger, or else a reading of the clock
ReviewAnchors ==
    LET ok == Parseable(emissions_data)
    IN  IF ok # {}
        THEN { SetMax({ to_datetime(emissions_data[i].date).day : i \in ok }) }
        ELSE ClockChoices

\* C21 as stated: the next review date is the anchor plus period_months *
\* 30.44 days (in hundredths of a day: 3044 per month).
C21_AsStated ==
    Returned =>
        \E anchor \in ReviewAnchors :
            result.next_review_date.day * 100
                = anchor * 100 + assessment_period_months * 3044

\* the whole days in months * 30.44 days, for a period that is not negative
WholeDays(months) ==
    CHOOSE d \in 0..(months * 31) :
        d * 100 <= months * 3044 /\ months * 3044 < (d + 1) * 100

\* C21 amended: the next review date is the anchor plus the whole days of
\* period_months * 30.44 (the fraction of a day is dropped); the anchor is
\* the latest parseable date of the ledger, and the evaluation instant when
\* the ledger is empty or has no parseable date.
C21_Amended ==
    Returned =>
        /\ result.next_review_date.valid
        /\ \E anchor \in ReviewAnchors :
              result.next_review_date.day
                  = anchor + WholeDays(assessment_period_months)

\* six months after a latest parseable date of 2025-02-01, with an undated
\* row in the ledger: 182 days later, not 182.64
C21_Witness ==
    /\ Returned
    /\ assessment_period_months = 6
    /\ \E i \in DOMAIN emissions_data : i \notin Parseable(emissions_data)
    /\ ReviewAnchors = { DayNumber(2025, 2, 1) }
    /\ result.next_review_date = Day(DayNumber(2025, 2, 1) + 182)


\* the call before this one had the same ledger, profile and period and
\* returned a result, as this one did
SameCallTwice ==
    /\ Returned
    /\ previous.kind = "call"
    /\ previous.result.kind = "result"
    /\ previous.emissions_data = emissions_data
    /\ previous.company_info = company_info
    /\ previous.assessment_period_months = assessment_period_months

SameButDates(a, b) ==
    /\ Len(a) = Len(b)
    /\ \A i \in DOMAIN a :
          /\ a[i].emissions_kgCO2e = b[i].emissions_kgCO2e
          /\ a[i].scope = b[i].scope
          /\ a[i].category = b[i].category

Verdict(r) ==
    <<r.emissions_actual, r.emissions_benchmark, r.performance_ratio, r.status,
      r.score, r.fine_amount, r.credit_amount, r.actual_period_months>>

Timeless(r) ==
    <<Verdict(r), r.recommendations, r.period_description>>

\* every output in the state is what its call gives on its own arguments
AsIfAlone ==
    /\ (Returned /\ previous.kind = "call" /\ previous.result.kind = "result") =>
          Timeless(result) = Timeless(previous.result)
    /\ (Returned /\ scenarios # <<>>) =>
          \A i \in DOMAIN scenarios :
              scenarios[i] = scenario_of(result, scenarios[i].reduction_percentage)
    /\ (Returned /\ report.kind = "report") =>
          \E clock \in ClockChoices : report = report_of(result, company_info, clock)
    /\ benchmark_info.kind = "returned" =>
          benchmark_info.value =
              get(load_industry_benchmarks, lower(benchmark_info.industry), None)

\* a step leaves the tables, the ledger and the profile as they were, and a
\* result that was returned is either kept or handed over as it is
FrameKept ==
    /\ industry_benchmarks' = industry_benchmarks
    /\ compliance_rules' = compliance_rules
    /\ emissions_data' = emissions_data
    /\ company_info' = company_info
    /\ result.kind = "result" =>
          \/ result' = result
          \/ result' = NoResult /\ previous'.result = result

C26_SameRecordAsAssessment ==
    benchmark_info.kind = "returned" =>
        benchmark_info.value =
            industry_benchmarks[industry_key("industry" :> benchmark_info.industry)]

\* the tag "fintech": assess_compliance has scored the profile against the
\* services record (2800 kg for each of 50 employees), the lookup gave None
C26_Divergence ==
    /\ Returned
    /\ company_info["industry"] = fintech_
    /\ result.emissions_benchmark = RI(140)
    /\ benchmark_info.kind = "returned"
    /\ benchmark_info.industry = fintech_
    /\ benchmark_info.value = None


\* C27: the score of every result lies within the score_range the rule
\* table records for its status: EXCELLENT in [90,100], GOOD in [75,89],
\* NEEDS_IMPROVEMENT in [60,74], POOR in [40,59], CRITICAL in [0,39].
C27_ScoreInStatusRange ==
    Returned =>
        LET range == compliance_rules[result.status].score_range
        IN  RLe(RI(range[1]), result.score) /\ RLe(result.score, RI(range[2]))


\* a POOR result, ratio 320/289, whose score 17060/289 lies between the 59
\* that ends the POOR range and the 60 that starts the next one
C27_Divergence ==
    /\ Returned
    /\ result.status = POOR
    /\ result.performance_ratio = Rat(320, 289)
    /\ result.score = Rat(17060, 289)
    /\ RLt(RI(compliance_rules[POOR].score_range[2]), result.score)
    /\ RLt(result.score, RI(compliance_rules[NEEDS_IMPROVEMENT].score_range[1]))


\* the list before the cut of line 341, for either order of equal sums
UncutLists ==
    { recommendations_before_cut(result.status, emissions_data,
                                 sort_values(emissions_data, ties)) :
          ties \in {"kept", "reversed"} }

\* C28: the list _generate_recommendations has built before the final cut
\* never has more than 7 items, so the cut to 8 removes nothing: the list
\* returned is the list built.
C28_CutRemovesNothing ==
    Returned =>
        /\ \A uncut \in UncutLists : Len(uncut) <= 7
        /\ result.recommendations \in UncutLists

\* the longest list: four generic items of the POOR / CRITICAL tier and an
\* item for each of the three top categories, out of four categories that
\* have an item
C28_Witness ==
    /\ Returned
    /\ Len(result.recommendations) = 7
    /\ result.status \in {POOR, CRITICAL}
    /\ Cardinality(categories(emissions_data) \ {"Waste"}) = 4


\* the reductions the claim speaks of
InClaimedRange(p) ==
    0 <= p /\ p <= 100

\* the two scenarios are for reductions 0 <= p1 <= p2 <= 100 and the
\* larger one pays no worse
NeverWorse(first, second) ==
    (/\ InClaimedRange(first.reduction_percentage)
     /\ InClaimedRange(second.reduction_percentage)
     /\ first.reduction_percentage <= second.reduction_percentage) =>
        /\ RLe(second.new_fine_amount, first.new_fine_amount)
        /\ RLe(first.new_credit_amount, second.new_credit_amount)
        /\ RLe(first.financial_improvement, second.financial_improvement)

AddedRows ==
    SubSeq(emissions_data, Len(last_call.before) + 1, Len(emissions_data))

\* C25: after any sequence of add_emission_entry and import_csv calls from
\* the empty ledger, every ledger row has emissions_kgCO2e >= 0, and every
\* row added without a pre-computed emissions value has emissions_kgCO2e
\* equal to quantity * emission_factor.
C25_EmissionsNotNegative ==
    /\ \A i \in DOMAIN emissions_data : emissions_data[i].emissions_kgCO2e >= 0
    /\ (last_call.kind = "call" /\ ~last_call.precomputed) =>
          \A i \in DOMAIN AddedRows :
              AddedRows[i].emissions_kgCO2e =
                  AddedRows[i].quantity * AddedRows[i].emission_factor

\* add_emission_entry with quantity -5 and factor 2 has reported success
\* and the ledger holds a row of -10 kg
C25_Divergence ==
    /\ last_call.kind = "call"
    /\ last_call.op = "add_emission_entry"
    /\ last_call.success
    /\ Len(emissions_data) = 1
    /\ emissions_data[1].quantity = -5
    /\ emissions_data[1].emission_factor = 2
    /\ emissions_data[1].emissions_kgCO2e = -10

\* C30: whenever add_emission_entry returns False or import_csv returns a
\* failure tuple, the ledger in memory is the same as before the call; it
\* grows only on calls that report success.
C30_FailureLeavesLedger ==
    (last_call.kind = "call" /\ emissions_data # last_call.before) => last_call.success

\* add_emission_entry has returned False because the file could not be
\* written, and the ledger holds the entry all the same
C30_Divergence ==
    /\ last_call.kind = "call"
    /\ last_call.op = "add_emission_entry"
    /\ ~last_call.success
    /\ last_call.before = <<>>
    /\ Len(emissions_data) = 1
    /\ emissions_file = NoFile

=============================================================================
